---- MODULE Spec2Model ----
(***************************************************************************)
(* Control plane and tick scheduler of the sandbox simulation.             *)
(*                                                                         *)
(*   SandboxController  src/src/game/sandbox/controller.py                 *)
(*   SandboxSimulation  src/src/game/sandbox/simulation.py                 *)
(*                                                                         *)
(* Caller threads issue execute_command; each call is split at the points  *)
(* where other threads can interleave (waiting for the lock, entering the  *)
(* with block and reading the flag, the try block, leaving).  One ticker   *)
(* calls update, split at each call update makes inside its try block.     *)
(*                                                                         *)
(* SandboxController calls _pause_simulation, _resume_simulation,          *)
(* _stop_simulation, _reset_simulation and _apply_simulation_params, none  *)
(* of which is defined anywhere in the repository: the call raises         *)
(* AttributeError, and that is what the model does.                        *)
(***************************************************************************)
EXTENDS Integers, Sequences, FiniteSets, TLC

\* ---------------------------------------------------------------- bounds

\* controller.py:35 sets 1000; scaled down so that trimming happens.
MAX_HISTORY_ENTRIES == 1
\* controller.py:36 sets 10; scaled down so that eviction happens.
MAX_SAVE_STATES == 2
\* simulation.py:51
TimeScale == 1

\* execute_command calls issued in one behaviour
MaxCalls == 2
\* how many times the wall clock moves on
MaxClock == 1
\* the same two bounds in the specification of the snapshot store alone
MaxSaveCalls == 3
MaxSaveClock == 2
\* current_time stays within this
MaxTime == 1
\* current_time, the events one subsystem call emits and the events one
\* tick emits, in the specification of the ticks alone
MaxTickTime == 2
MaxEmit == 2
MaxTickEvents == 3
\* the subsystem state blobs get_state can return
Blobs == {"w0", "w1"}

\* first wall-clock reading; every reading has two digits, as every
\* datetime.now().timestamp() of this era has ten
Clock0 == 10

Threads == {"t1", "t2"}
NoThread == "none"

\* AgentInterface limits: 1000 connections, 30 s timeout, 300 s between
\* janitor passes in the source, scaled down with their order kept
MAX_CONNECTIONS == 2
CONNECTION_TIMEOUT == 1
CLEANUP_INTERVAL == 2
\* timedelta.seconds is the part of a difference below one day (86400 s in
\* Python, scaled down and kept above CLEANUP_INTERVAL)
DaySeconds == 4
\* the interface's wall clock runs from 0 to MaxRegClock
MaxRegClock == 4
\* the same clock in the specification of the janitor and the handlers
MaxHandlerClock == 4
AgentIds == {"a1", "a2", "a3"}
\* agent_data.get('id') when the key is missing or the id is empty
NoAgentId == ""
\* what else an agent_data dict holds
Descriptions == {"d1", "d2"}
\* event types and handlers passed to register_event_handler; NotCallable is
\* a handler for which callable() is False
EventTypes == {"e1", "e2"}
Handlers == {"h1", "h2"}
NotCallable == "notcallable"

\* ------------------------------------------------------------ enumerations

\* class ControlCommand (controller.py:10 holds RESUME and STOP on one line;
\* read as the two members)
ControlCommand == {"start", "pause", "resume", "stop", "reset", "save", "load"}

\* an argument of execute_command that is no ControlCommand member (a str,
\* None): it has no attribute `value`
NotACommand == "not a ControlCommand"

\* class SimulationState
SimulationState == {"initializing", "running", "paused", "stopped", "error"}

\* str(datetime.now().timestamp()): the digits of the reading
Str(n) == <<n \div 10, n % 10>>

ClockValues == Clock0 .. (Clock0 + MaxClock)
SaveClockValues == Clock0 .. (Clock0 + MaxSaveClock)

\* Python's < on str: lexicographic on the characters
StrLess(a, b) ==
    \E i \in 1 .. Len(a) :
        /\ i <= Len(b)
        /\ \A j \in 1 .. (i - 1) : a[j] = b[j]
        /\ a[i] < b[i]

\* params of execute_command: None, {}, a non-empty dict without 'save_id',
\* {'save_id': s}
NoId == <<>>
Params(k, id) == [kind |-> k, save_id |-> id]
NoParams == Params("none", NoId)

\* the calls made: start with optional init params, pause/resume/stop/reset
\* and save with none, load with a save_id or without one
CallInputs ==
    ({"start"} \X {Params(k, NoId) : k \in {"none", "empty", "opts"}})
        \cup ({"pause", "resume", "stop", "reset", "save"} \X {NoParams})
        \cup ({"load"} \X ({Params(k, NoId) : k \in {"none", "empty"}}
                            \cup {Params("save", Str(n)) : n \in ClockValues}))

\* the calls made in the specification of the snapshot store: save, and load
\* with a save_id or without one
SaveInputs ==
    ({"save"} \X {NoParams})
        \cup ({"load"} \X ({Params(k, NoId) : k \in {"none", "empty"}}
                            \cup {Params("save", Str(n)) : n \in SaveClockValues}))

\* the same calls, and a call whose command is no ControlCommand
AnyInputs == CallInputs \cup {<< NotACommand, NoParams >>}

\* truth value of params in `if params:`
Truthy(p) == p.kind \in {"opts", "save"}

\* deltas handed to update in this specification
Deltas == {1}

\* deltas of either sign: update takes any float
SignedDeltas == {-1, 0, 1}

\* the calls update makes, with combat resolved before the agents update
UpdateOrder_CombatEarly ==
    << "pre_update", "environment", "physics", "combat", "agents", "social",
       "factions", "post_update", "collect_events", "update_metrics" >>

\* the calls update makes inside its try block, in order
UpdateOrder ==
    << "pre_update", "environment", "physics", "agents", "combat", "social",
       "factions", "post_update", "collect_events", "update_metrics" >>

\* the subsystem results handed to _collect_events, in argument order, with
\* the combat result first
CollectArgs_CombatFirst ==
    << "combat", "environment", "physics", "agents", "social", "factions" >>

\* the subsystem results handed to _collect_events, in argument order
CollectArgs ==
    << "environment", "physics", "agents", "combat", "social", "factions" >>

\* how many events one subsystem call emits
EmitCounts == 0 .. MaxEmit

\* the calls that are subsystem updates
Subsystems == {"environment", "physics", "agents", "combat", "social", "factions"}

\* ------------------------------------------------------------------ state

VARIABLES
    state,            \* simulation.state
    current_time,     \* simulation.current_time
    world,            \* the subsystems' state, what get_state returns
    command_history,  \* controller.command_history
    save_states,      \* controller.save_states: save_id -> state_data
    is_processing,    \* controller.is_processing
    error_count,      \* controller.error_count
    lock,             \* holder of controller._lock
    now,              \* the wall clock
    pc,               \* per thread: position inside execute_command
    cmd,              \* per thread: command of the call
    params,           \* per thread: params of the call
    result,           \* per thread: the result dict
    logged,           \* number of _log_command calls so far
    evicted,          \* the save ids _trim_save_states has deleted so far
    upc,              \* ticker: position inside update
    step,             \* ticker: calls of UpdateOrder made in this tick
    scaled_delta,     \* ticker: delta_time * time_scale
    tick_result,      \* ticker: what update returned
    sub_updates,      \* ticker: env_updates .. faction_updates of this tick
    events,           \* ticker: updates['events']
    emitted,          \* number of events the subsystems have emitted so far
    tick_base,        \* emitted when the tick in progress was accepted
    registered_agents,      \* interface.registered_agents: id -> agent_data
    agent_states,           \* interface.agent_states: id -> AgentState
    active_connections,     \* interface.active_connections: id -> weakref
    connection_timestamps,  \* interface.connection_timestamps: id -> time
    event_handlers,         \* interface.event_handlers: id -> type -> handler
    last_event_time,        \* interface.last_event_time: id -> time
    reg_lock,               \* holder of interface._lock
    cleanup_task,           \* the janitor task: where _periodic_cleanup is
    wake,                   \* when the janitor's asyncio.sleep is over
    reg_now,                \* the wall clock the interface reads
    reg_result,             \* what the last interface call returned
    shutdown,               \* where the caller of cleanup() is
    passes,                 \* janitor passes completed so far
    rcall                   \* per caller thread: its interface call in steps

vars ==
    << state, current_time, world, command_history, save_states, is_processing,
       error_count, lock, now, pc, cmd, params, result, logged, evicted,
       upc, step, scaled_delta, tick_result, sub_updates, events, emitted,
       tick_base,
       registered_agents, agent_states, active_connections,
       connection_timestamps, event_handlers, last_event_time, reg_lock,
       cleanup_task, wake, reg_now, reg_result, shutdown, passes, rcall >>

ctlVars ==
    << command_history, save_states, is_processing, error_count, lock, pc,
       cmd, params, result, logged, evicted >>

tickVars ==
    << upc, step, scaled_delta, tick_result, sub_updates, events, emitted,
       tick_base >>

regVars ==
    << registered_agents, agent_states, active_connections,
       connection_timestamps, event_handlers, last_event_time, reg_lock,
       cleanup_task, wake, reg_now, reg_result, shutdown, passes, rcall >>

simVars == << state, current_time, world, now >>

\* ---------------------------------------------------------------- results

Result(ok, why, id) == [success |-> ok, reason |-> why, save_id |-> id]

NoResult == Result(FALSE, "", NoId)

\* result = {'success': False, 'command': command.value}
InitialResult == Result(FALSE, "", NoId)

Busy == Result(FALSE, "Controller is busy", NoId)

\* what update returns; the "not running" reason names the state it found
TickResult(ok, why, st) == [success |-> ok, reason |-> why, state |-> st]
NotRunning(st) == TickResult(FALSE, "Simulation not running", st)
Raised == TickResult(FALSE, "raised", "")
TickOk == TickResult(TRUE, "", "")
NoTick == TickResult(FALSE, "", "")

\* ------------------------------------------------- SandboxController parts

\* what a handler leaves behind: whether it raised, the result it returned or
\* the text of the exception, and the shared state after it
Outcome(r, res, why, st, saves, w) ==
    [raised |-> r, result |-> res, reason |-> why, state |-> st,
     save_states |-> saves, world |-> w]

Returns(res, st, saves, w) == Outcome(FALSE, res, "", st, saves, w)

Raises(why, st) == Outcome(TRUE, NoResult, why, st, save_states, world)

\* a method the class does not define: AttributeError
MissingMethod(name) == Raises(name, state)

\* simulation.get_state()
get_state == world

\* simulation.set_state(state_data): the subsystems take the recorded blob
set_state(state_data) == state_data

\* _start_simulation without the check of the state
StartSimulation_NoCheck(p) ==
    Returns(Result(TRUE, "", NoId), "running", save_states, world)

\* _start_simulation
StartSimulation(p) ==
    IF state # "initializing"
    THEN Returns(Result(FALSE, "Simulation already started", NoId),
                 state, save_states, world)
    ELSE IF Truthy(p)
         \* _apply_simulation_params is not defined: the except clause sets
         \* ERROR and re-raises
         THEN Raises("_apply_simulation_params", "error")
         ELSE Returns(Result(TRUE, "", NoId), "running", save_states, world)

\* max instead of min
OldestSave_Newest(saves) ==
    CHOOSE k \in DOMAIN saves : \A o \in DOMAIN saves : o = k \/ StrLess(o, k)

\* min(self.save_states.keys())
OldestSave(saves) ==
    CHOOSE k \in DOMAIN saves : \A o \in DOMAIN saves : o = k \/ StrLess(k, o)

\* _trim_save_states without the del
TrimSaveStates_NoTrim(saves) == saves

\* _trim_save_states
TrimSaveStates(saves) ==
    IF Cardinality(DOMAIN saves) > MAX_SAVE_STATES
    THEN [k \in (DOMAIN saves) \ {OldestSave(saves)} |-> saves[k]]
    ELSE saves

\* stores the params of the call instead of state_data
Store_Params(saves, id, data) ==
    [k \in (DOMAIN saves) \cup {id} |-> IF k = id THEN "params" ELSE saves[k]]

\* self.save_states[save_id] = state_data
Store(saves, id, data) ==
    [k \in (DOMAIN saves) \cup {id} |-> IF k = id THEN data ELSE saves[k]]

\* _save_state; fails: get_state raises, which the except clause of
\* _save_state turns into a failure result
SaveState(p, fails) ==
    LET save_id == Str(now)
        stored == TrimSaveStates(Store(save_states, save_id, get_state))
    IN  IF fails
        THEN Returns(Result(FALSE, "get_state raised", NoId),
                     state, save_states, world)
        ELSE Returns(Result(TRUE, "", save_id), state, stored, world)

\* _load_state; fails: set_state raises, which the except clause of
\* _load_state turns into a failure result
LoadState(p, fails) ==
    IF p.kind = "none"
    \* params.get on None, outside the try block
    THEN Raises("NoneType.get", state)
    ELSE IF p.save_id = NoId \/ p.save_id \notin DOMAIN save_states
         THEN Returns(Result(FALSE, "Save state not found", NoId),
                      state, save_states, world)
         ELSE IF fails
              THEN Returns(Result(FALSE, "set_state raised", NoId),
                           state, save_states, world)
              ELSE Returns(Result(TRUE, "", p.save_id), state, save_states,
                           set_state(save_states[p.save_id]))

\* the if/elif chain of execute_command
Dispatch(c, p, fails) ==
    CASE c = "start"  -> StartSimulation(p)
      [] c = "pause"  -> MissingMethod("_pause_simulation")
      [] c = "resume" -> MissingMethod("_resume_simulation")
      [] c = "stop"   -> MissingMethod("_stop_simulation")
      [] c = "reset"  -> MissingMethod("_reset_simulation")
      [] c = "save"   -> SaveState(p, fails)
      [] c = "load"   -> LoadState(p, fails)

\* the entry _log_command builds
LogEntry(c, p, res) ==
    [timestamp |-> now, command |-> c, params |-> p, result |-> res]

\* _log_command
LogCommand(history, c, p, res) == Append(history, LogEntry(c, p, res))

\* _trim_history without the slice
TrimHistory_NoTrim(history) == history

\* _trim_history
TrimHistory(history) ==
    IF Len(history) > MAX_HISTORY_ENTRIES
    THEN SubSeq(history, Len(history) - MAX_HISTORY_ENTRIES + 1, Len(history))
    ELSE history

\* execute_command without `with self._lock`
LockAvailable_NoLock == TRUE

\* with self._lock: the lock is free
LockAvailable == lock = NoThread

\* calls that have been issued and have not returned
InFlight == {t \in Threads : pc[t] # "idle"}

\* ----------------------------------------------------- events of a tick

\* the n events a subsystem call emits when k events were emitted before
\* it, in emission order; an event is known by its serial number
Emit(k, n) == [i \in 1 .. n |-> k + i]

\* no subsystem has returned in this tick
NoUpdates == [c \in Subsystems |-> <<>>]

RECURSIVE Concat(_, _, _)
\* the lists results[args[i]], .., results[args[Len(args)]] in one list
Concat(results, args, i) ==
    IF i > Len(args) THEN <<>>
    ELSE results[args[i]] \o Concat(results, args, i + 1)

\* _collect_events(env_updates, .., faction_updates): its arguments in one
\* list, in argument order
CollectEvents(results) == Concat(results, CollectArgs, 1)

\* ------------------------------------------------------- AgentInterface

AgentState == {"initializing", "active", "inactive", "disconnected", "error"}

\* agent_data dicts, and agent_data = None
AgentData(id, d) == [kind |-> "dict", id |-> id, data |-> d]
NoAgentData == [kind |-> "none", id |-> NoAgentId, data |-> "d1"]

\* the agent_data passed to register_agent
AgentDataInputs ==
    {AgentData(id, d) : id \in AgentIds, d \in Descriptions}
        \cup {AgentData(NoAgentId, "d1"), NoAgentData}

\* what an interface call returned
RegResult(op, id, ok, why) ==
    [op |-> op, agent_id |-> id, success |-> ok, reason |-> why]

NoRegResult == RegResult("none", NoAgentId, FALSE, "")

\* the weak reference to the connection object made inside connect_agent
Connection == "weakref"

\* dict[key] = value
Put(table, key, value) ==
    [k \in (DOMAIN table) \cup {key} |-> IF k = key THEN value ELSE table[k]]

\* a del that deletes nothing
Del_Keeps(table, key) == table

\* del dict[key]
Del(table, key) == [k \in (DOMAIN table) \ {key} |-> table[k]]

\* (current_time - timestamp).seconds
Seconds(d) == d % DaySeconds

\* capacity check of register_agent with > for >=
AtCapacity_Above == Cardinality(DOMAIN registered_agents) > MAX_CONNECTIONS

\* len(self.registered_agents) >= self.MAX_CONNECTIONS
AtCapacity == Cardinality(DOMAIN registered_agents) >= MAX_CONNECTIONS

\* connect_agent without the registration check
IsRegistered_Always(agent_id) == TRUE

\* agent_id in self.registered_agents
IsRegistered(agent_id) == agent_id \in DOMAIN registered_agents

\* connect_agent leaving the agent Initializing
ConnectedState_Initializing == "initializing"

\* the state connect_agent sets
ConnectedState == "active"

\* every connection counted as timed out
Stale_All == DOMAIN connection_timestamps

\* the connections _cleanup_inactive_connections finds timed out
Stale ==
    {a \in DOMAIN connection_timestamps :
        Seconds(reg_now - connection_timestamps[a]) > CONNECTION_TIMEOUT}

\* _cleanup_old_events deleting every table
CleanupOldEvents_All(handlers) == <<>>

\* _cleanup_old_events
CleanupOldEvents(handlers) ==
    [a \in (DOMAIN handlers) \cap (DOMAIN registered_agents) |-> handlers[a]]

\* `except Exception` catching everything, CancelledError included
CaughtByExcept_All(e) == TRUE

\* what `except Exception` in _periodic_cleanup catches: asyncio's
\* CancelledError derives from BaseException and passes through
CaughtByExcept(e) == e # "CancelledError"

\* callable(handler)
IsCallable(handler) == handler \in Handlers

\* the agent's table replaced by one holding only the new handler
PutHandler_Fresh(handlers, agent_id, event_type, handler) ==
    Put(handlers, agent_id, Put(<<>>, event_type, handler))

\* self.event_handlers[agent_id][event_type] = handler, the agent's table
\* being created when it is missing
PutHandler(handlers, agent_id, event_type, handler) ==
    Put(handlers, agent_id,
        Put(IF agent_id \in DOMAIN handlers THEN handlers[agent_id] ELSE <<>>,
            event_type, handler))

\* `with self._lock` entered whoever holds the lock
RegLockFree_Always == TRUE

\* the interface's lock is free
RegLockFree == reg_lock = NoThread

\* an interface call of a caller thread, followed statement by statement:
\* the operation, its agent id, where the caller is, and what it returns
\* (at "write", k is the write it makes next)
InterfaceCall(op, id, at, k, ok, why) ==
    [op |-> op, agent_id |-> id, at |-> at, k |-> k, success |-> ok,
     reason |-> why]

NoCall == InterfaceCall("none", NoAgentId, "idle", 0, FALSE, "")

\* the operations followed statement by statement
InterfaceOps == {"register", "connect", "disconnect", "handler"}

\* the statements of an operation that write a table, in order
Writes(op) ==
    CASE op = "register"   -> << "registered_agents", "agent_states" >>
      [] op = "connect"    -> << "agent_states", "connection_timestamps",
                                 "active_connections" >>
      [] op = "disconnect" -> << "active_connections", "connection_timestamps",
                                 "agent_states" >>
      [] op = "handler"    -> << "event_handlers", "last_event_time" >>

\* the checks an operation makes before its first write: the reason of the
\* failure it returns, or "" when it goes on
Refusal(op, id) ==
    CASE op = "register" ->
             IF AtCapacity THEN "Maximum connections reached"
             ELSE IF id \in DOMAIN registered_agents
                  THEN "Agent already registered" ELSE ""
      [] op = "connect" -> IF IsRegistered(id) THEN "" ELSE "Agent not registered"
      [] op = "disconnect" -> ""
      [] op = "handler" ->
             IF id \in DOMAIN registered_agents THEN "" ELSE "Agent not found"

\* ------------------------------------------------------------------ Init

Init ==
    /\ state = "initializing"
    /\ current_time = 0
    /\ world = "w0"
    /\ command_history = <<>>
    /\ save_states = <<>>
    /\ is_processing = FALSE
    /\ error_count = 0
    /\ lock = NoThread
    /\ now = Clock0
    /\ pc = [t \in Threads |-> "idle"]
    /\ cmd = [t \in Threads |-> "start"]
    /\ params = [t \in Threads |-> NoParams]
    /\ result = [t \in Threads |-> NoResult]
    /\ logged = 0
    /\ evicted = {}
    /\ upc = "idle"
    /\ step = 0
    /\ scaled_delta = 0
    /\ tick_result = NoTick
    /\ sub_updates = NoUpdates
    /\ events = <<>>
    /\ emitted = 0
    /\ tick_base = 0
    /\ registered_agents = <<>>
    /\ agent_states = <<>>
    /\ active_connections = <<>>
    /\ connection_timestamps = <<>>
    /\ event_handlers = <<>>
    /\ last_event_time = <<>>
    /\ reg_lock = NoThread
    /\ cleanup_task = "none"
    /\ wake = 0
    /\ reg_now = 0
    /\ reg_result = NoRegResult
    /\ shutdown = "no"
    /\ passes = 0
    /\ rcall = [t \in Threads |-> NoCall]

\* ------------------------------------------------- execute_command, by step

\* a thread calls execute_command(c, p) and reaches `with self._lock`; at
\* most max calls are made
CallWithin(t, c, p, max) ==
    /\ pc[t] = "idle"
    /\ logged + error_count + Cardinality(InFlight) < max
    /\ pc' = [pc EXCEPT ![t] = "lock"]
    /\ cmd' = [cmd EXCEPT ![t] = c]
    /\ params' = [params EXCEPT ![t] = p]
    /\ UNCHANGED << state, current_time, world, command_history, save_states,
                    is_processing, error_count, lock, now, result, logged,
                    evicted >>
    /\ UNCHANGED tickVars
    /\ UNCHANGED regVars

Call(t, c, p) == CallWithin(t, c, p, MaxCalls)

SaveCall(t, c, p) == CallWithin(t, c, p, MaxSaveCalls)

\* the thread enters the with block and reads is_processing: busy, or go on
Enter(t) ==
    /\ pc[t] = "lock"
    /\ LockAvailable
    /\ lock' = t
    /\ IF is_processing
       THEN /\ result' = [result EXCEPT ![t] = Busy]
            /\ pc' = [pc EXCEPT ![t] = "busy"]
       ELSE /\ result' = result
            /\ pc' = [pc EXCEPT ![t] = "exec"]
    /\ UNCHANGED << state, current_time, world, command_history, save_states,
                    is_processing, error_count, now, cmd, params, logged,
                    evicted >>
    /\ UNCHANGED tickVars
    /\ UNCHANGED regVars

\* the ids a handler outcome removed from the store, the one it had just
\* stored included
Evicted(c, o) ==
    LET new == IF c = "save" /\ ~o.raised /\ o.result.success
               THEN {o.result.save_id} ELSE {}
    IN  ((DOMAIN save_states) \cup new) \ DOMAIN o.save_states

\* is_processing = True and the initial result, then the try block: the
\* handler, _log_command and _trim_history; or the except clause.  Whether
\* get_state / set_state raises when the handler calls it is the
\* simulation's choice.  command.value, read for the initial result before
\* the try block is entered, raises AttributeError when the command is no
\* ControlCommand: the exception leaves execute_command past the except
\* and finally clauses.
Execute(t) ==
    /\ pc[t] = "exec"
    /\ is_processing' = TRUE
    /\ IF cmd[t] \notin ControlCommand
       THEN /\ pc' = [pc EXCEPT ![t] = "raised"]
            /\ UNCHANGED << state, save_states, world, evicted, result,
                            error_count, command_history, logged >>
       ELSE /\ pc' = [pc EXCEPT ![t] = "finally"]
            /\ \E fails \in BOOLEAN :
               LET o == Dispatch(cmd[t], params[t], fails)
               IN  /\ state' = o.state
                   /\ save_states' = o.save_states
                   /\ world' = o.world
                   /\ evicted' = evicted \cup Evicted(cmd[t], o)
                   /\ IF o.raised
                      THEN /\ result' =
                                  [result EXCEPT ![t] =
                                      [InitialResult EXCEPT !.reason = o.reason]]
                           /\ error_count' = error_count + 1
                           /\ UNCHANGED << command_history, logged >>
                      ELSE /\ result' = [result EXCEPT ![t] = o.result]
                           /\ command_history' =
                                  TrimHistory(LogCommand(command_history, cmd[t],
                                                         params[t], o.result))
                           /\ logged' = logged + 1
                           /\ UNCHANGED error_count
    /\ UNCHANGED << current_time, lock, now, cmd, params >>
    /\ UNCHANGED tickVars
    /\ UNCHANGED regVars

\* the call leaves the with block: with its result through the finally
\* clause (is_processing = False), with the busy result straight from the
\* return, or with the exception that was raised before the try block
Leave(t) ==
    /\ pc[t] \in {"finally", "busy", "raised"}
    /\ is_processing' = IF pc[t] = "finally" THEN FALSE ELSE is_processing
    /\ lock' = IF lock = t THEN NoThread ELSE lock
    /\ pc' = [pc EXCEPT ![t] = "idle"]
    /\ cmd' = [cmd EXCEPT ![t] = "start"]
    /\ params' = [params EXCEPT ![t] = NoParams]
    /\ result' = [result EXCEPT ![t] = NoResult]
    /\ UNCHANGED << state, current_time, world, command_history, save_states,
                    error_count, now, logged, evicted >>
    /\ UNCHANGED tickVars
    /\ UNCHANGED regVars

\* datetime.now() moves on, max times at most
ClockWithin(max) ==
    /\ now < Clock0 + max
    /\ now' = now + 1
    /\ UNCHANGED << state, current_time, world >>
    /\ UNCHANGED ctlVars
    /\ UNCHANGED tickVars
    /\ UNCHANGED regVars

ClockAdvance == ClockWithin(MaxClock)

SaveClockAdvance == ClockWithin(MaxSaveClock)

\* ------------------------------------------- SandboxSimulation.update, by step

\* the except clause of update leaves simulation.state untouched
UpdateExcept_Keeps == state

\* what the except clause of update does to simulation.state
UpdateExcept == "error"

\* update runs in every state but ERROR
UpdateAccepts_NotError == state # "error"

\* `if self.state != SimulationState.RUNNING: return` does not return
UpdateAccepts == state = "running"

\* the subsystems' state after the call named c returned
AfterCall(c, w) ==
    IF c \in Subsystems THEN CHOOSE b \in Blobs : b # w ELSE w

\* the delta scaled twice
ScaledDelta_Twice(dt) == dt * TimeScale * 2

\* scaled_delta = delta_time * self.time_scale
ScaledDelta(dt) == dt * TimeScale

\* update(delta_time) is called: rejected unless RUNNING
UpdateCallWithin(dt, max) ==
    /\ upc = "idle"
    /\ IF ~UpdateAccepts
       THEN /\ tick_result' = NotRunning(state)
            /\ upc' = "returned"
            /\ UNCHANGED << step, scaled_delta >>
       ELSE /\ current_time + ScaledDelta(dt) \in (0 - max) .. max
            /\ scaled_delta' = ScaledDelta(dt)
            /\ step' = 0
            /\ tick_result' = NoTick
            /\ upc' = "tick"
    /\ sub_updates' = NoUpdates
    /\ events' = <<>>
    /\ tick_base' = emitted
    /\ UNCHANGED << state, current_time, world, now, emitted >>
    /\ UNCHANGED ctlVars
    /\ UNCHANGED regVars

UpdateCall(dt) == UpdateCallWithin(dt, MaxTime)

TickCall(dt) == UpdateCallWithin(dt, MaxTickTime)

\* the next call of the try block returns; a subsystem update returns the n
\* events it emitted, _collect_events returns the batch that
\* updates['events'] is extended with
UpdateStepEmitting(n) ==
    /\ upc = "tick"
    /\ step < Len(UpdateOrder)
    /\ step' = step + 1
    /\ LET c == UpdateOrder[step + 1]
       IN  /\ n = 0 \/ c \in Subsystems
           /\ world' = AfterCall(c, world)
           /\ emitted' = emitted + n
           /\ sub_updates' =
                  IF c \in Subsystems
                  THEN [sub_updates EXCEPT ![c] = Emit(emitted, n)]
                  ELSE sub_updates
           /\ events' =
                  IF c = "collect_events"
                  THEN events \o CollectEvents(sub_updates)
                  ELSE events
    /\ UNCHANGED << state, current_time, now, upc, scaled_delta, tick_result,
                    tick_base >>
    /\ UNCHANGED ctlVars
    /\ UNCHANGED regVars

UpdateStep == UpdateStepEmitting(0)

TickStep ==
    \E n \in EmitCounts :
        /\ (emitted - tick_base) + n <= MaxTickEvents
        /\ UpdateStepEmitting(n)

\* the next call of the try block raises: the except clause
UpdateRaise ==
    /\ upc = "tick"
    /\ step < Len(UpdateOrder)
    /\ step' = step + 1
    /\ state' = UpdateExcept
    /\ tick_result' = Raised
    /\ upc' = "returned"
    /\ sub_updates' = NoUpdates
    /\ events' = <<>>
    /\ UNCHANGED << current_time, world, now, scaled_delta, emitted,
                    tick_base >>
    /\ UNCHANGED ctlVars
    /\ UNCHANGED regVars

\* self.current_time += scaled_delta; return success
UpdateFinish ==
    /\ upc = "tick"
    /\ step = Len(UpdateOrder)
    /\ current_time' = current_time + scaled_delta
    /\ tick_result' = TickOk
    /\ upc' = "returned"
    /\ UNCHANGED << state, world, now, step, scaled_delta, sub_updates,
                    events, emitted, tick_base >>
    /\ UNCHANGED ctlVars
    /\ UNCHANGED regVars

\* the caller of update has its result and is ready to call again
UpdateReturn ==
    /\ upc = "returned"
    /\ upc' = "idle"
    /\ step' = 0
    /\ scaled_delta' = 0
    /\ tick_result' = NoTick
    /\ sub_updates' = NoUpdates
    /\ events' = <<>>
    /\ tick_base' = emitted
    /\ UNCHANGED << state, current_time, world, now, emitted >>
    /\ UNCHANGED ctlVars
    /\ UNCHANGED regVars

\* ------------------------------------------------- AgentInterface, calls

\* register_agent(agent_data): runs under the lock without awaiting
register_agent(agent_data) ==
    /\ RegLockFree
    /\ IF agent_data.kind = "none"
       THEN /\ reg_result' = RegResult("register", NoAgentId, FALSE, "NoneType.get")
            /\ UNCHANGED << registered_agents, agent_states >>
       ELSE IF agent_data.id = NoAgentId
       THEN /\ reg_result' =
                   RegResult("register", NoAgentId, FALSE, "No agent ID provided")
            /\ UNCHANGED << registered_agents, agent_states >>
       ELSE IF AtCapacity
       THEN /\ reg_result' =
                   RegResult("register", agent_data.id, FALSE,
                             "Maximum connections reached")
            /\ UNCHANGED << registered_agents, agent_states >>
       ELSE IF agent_data.id \in DOMAIN registered_agents
       THEN /\ reg_result' =
                   RegResult("register", agent_data.id, FALSE,
                             "Agent already registered")
            /\ UNCHANGED << registered_agents, agent_states >>
       ELSE /\ registered_agents' =
                   Put(registered_agents, agent_data.id, agent_data)
            /\ agent_states' = Put(agent_states, agent_data.id, "initializing")
            /\ reg_result' = RegResult("register", agent_data.id, TRUE, "")
    /\ UNCHANGED << active_connections, connection_timestamps, event_handlers,
                    last_event_time, reg_lock, cleanup_task, wake, reg_now >>
    /\ UNCHANGED << simVars, ctlVars, tickVars, rcall >>
    /\ UNCHANGED << shutdown, passes >>

\* connect_agent(agent_id): runs under the lock without awaiting
connect_agent(agent_id) ==
    /\ RegLockFree
    /\ IF ~IsRegistered(agent_id)
       THEN /\ reg_result' =
                   RegResult("connect", agent_id, FALSE, "Agent not registered")
            /\ UNCHANGED << agent_states, connection_timestamps,
                            active_connections >>
       ELSE /\ agent_states' = Put(agent_states, agent_id, ConnectedState)
            /\ connection_timestamps' =
                   Put(connection_timestamps, agent_id, reg_now)
            /\ active_connections' =
                   Put(active_connections, agent_id, Connection)
            /\ reg_result' = RegResult("connect", agent_id, TRUE, "")
    /\ UNCHANGED << registered_agents, event_handlers, last_event_time,
                    reg_lock, cleanup_task, wake, reg_now >>
    /\ UNCHANGED << simVars, ctlVars, tickVars, rcall >>
    /\ UNCHANGED << shutdown, passes >>

\* _disconnect_agent(agent_id) called with the lock free
disconnect_agent(agent_id) ==
    /\ RegLockFree
    /\ active_connections' = Del(active_connections, agent_id)
    /\ connection_timestamps' = Del(connection_timestamps, agent_id)
    /\ agent_states' =
           IF agent_id \in DOMAIN agent_states
           THEN Put(agent_states, agent_id, "disconnected")
           ELSE agent_states
    /\ reg_result' = RegResult("disconnect", agent_id, TRUE, "")
    /\ UNCHANGED << registered_agents, event_handlers, last_event_time,
                    reg_lock, cleanup_task, wake, reg_now >>
    /\ UNCHANGED << simVars, ctlVars, tickVars, rcall >>
    /\ UNCHANGED << shutdown, passes >>

\* initialize(): the janitor task is created and goes to sleep
initialize ==
    /\ cleanup_task = "none"
    /\ cleanup_task' = "sleeping"
    /\ wake' = reg_now + CLEANUP_INTERVAL
    /\ UNCHANGED << registered_agents, agent_states, active_connections,
                    connection_timestamps, event_handlers, last_event_time,
                    reg_lock, reg_now, reg_result >>
    /\ UNCHANGED << simVars, ctlVars, tickVars, rcall >>
    /\ UNCHANGED << shutdown, passes >>

\* one pass of _periodic_cleanup after the sleep: with a timed-out
\* connection _cleanup_inactive_connections awaits _disconnect_agent, which
\* blocks on the lock the pass already holds; without one the pass goes on
\* to _cleanup_old_events and sleeps again
periodic_cleanup ==
    /\ cleanup_task = "sleeping"
    /\ reg_now >= wake
    /\ RegLockFree
    /\ IF Stale # {}
       THEN /\ reg_lock' = "janitor"
            /\ cleanup_task' = "blocked"
            /\ UNCHANGED << event_handlers, wake, passes >>
       ELSE /\ event_handlers' = CleanupOldEvents(event_handlers)
            /\ wake' = reg_now + CLEANUP_INTERVAL
            /\ passes' = passes + 1
            /\ UNCHANGED << reg_lock, cleanup_task >>
    /\ UNCHANGED << registered_agents, agent_states, active_connections,
                    connection_timestamps, last_event_time, reg_now,
                    reg_result, shutdown >>
    /\ UNCHANGED << simVars, ctlVars, tickVars, rcall >>

\* the interface's wall clock moves on, up to max
RegClockWithin(max) ==
    /\ reg_now < max
    /\ reg_now' = reg_now + 1
    /\ UNCHANGED << registered_agents, agent_states, active_connections,
                    connection_timestamps, event_handlers, last_event_time,
                    reg_lock, cleanup_task, wake, reg_result >>
    /\ UNCHANGED << simVars, ctlVars, tickVars, rcall >>
    /\ UNCHANGED << shutdown, passes >>

RegClockAdvance == RegClockWithin(MaxRegClock)

HandlerClockAdvance == RegClockWithin(MaxHandlerClock)

\* register_event_handler(agent_id, event_type, handler): runs under the lock
register_event_handler(agent_id, event_type, handler) ==
    /\ RegLockFree
    /\ IF agent_id \notin DOMAIN registered_agents
       THEN /\ reg_result' = RegResult("handler", agent_id, FALSE, "Agent not found")
            /\ UNCHANGED << event_handlers, last_event_time >>
       ELSE IF ~IsCallable(handler)
       THEN /\ reg_result' = RegResult("handler", agent_id, FALSE, "Invalid handler")
            /\ UNCHANGED << event_handlers, last_event_time >>
       ELSE /\ event_handlers' =
                   PutHandler(event_handlers, agent_id, event_type, handler)
            /\ last_event_time' = Put(last_event_time, agent_id, reg_now)
            /\ reg_result' = RegResult("handler", agent_id, TRUE, "")
    /\ UNCHANGED << registered_agents, agent_states, active_connections,
                    connection_timestamps, reg_lock, cleanup_task, wake,
                    reg_now, shutdown, passes >>
    /\ UNCHANGED << simVars, ctlVars, tickVars, rcall >>

\* cleanup(): cancels the janitor task, which is at its sleep, and awaits
\* it; without a task (initialize was never called) it does nothing.  A
\* janitor that caught the cancellation would sleep again and leave
\* cleanup() waiting.  While a pass is blocked the event loop's thread is
\* blocked with it, and cleanup() does not get to run.
cleanup ==
    /\ shutdown = "no"
    /\ cleanup_task # "blocked"
    /\ IF cleanup_task # "sleeping"
       THEN /\ shutdown' = "done"
            /\ UNCHANGED << cleanup_task, wake >>
       ELSE IF CaughtByExcept("CancelledError")
       THEN /\ shutdown' = "waiting"
            /\ wake' = reg_now + CLEANUP_INTERVAL
            /\ UNCHANGED cleanup_task
       ELSE /\ shutdown' = "done"
            /\ cleanup_task' = "cancelled"
            /\ UNCHANGED wake
    /\ UNCHANGED << registered_agents, agent_states, active_connections,
                    connection_timestamps, event_handlers, last_event_time,
                    reg_lock, reg_now, reg_result, passes >>
    /\ UNCHANGED << simVars, ctlVars, tickVars, rcall >>

\* --------------------------------- AgentInterface, calls by statement

\* a caller thread calls register_agent, connect_agent, _disconnect_agent or
\* register_event_handler for an agent and reaches `with self._lock`
caller_call(t, op, agent_id) ==
    /\ rcall[t].at = "idle"
    /\ rcall' = [rcall EXCEPT ![t] =
                     InterfaceCall(op, agent_id, "lock", 0, FALSE, "")]
    /\ UNCHANGED << registered_agents, agent_states, active_connections,
                    connection_timestamps, event_handlers, last_event_time,
                    reg_lock, cleanup_task, wake, reg_now, reg_result,
                    shutdown, passes >>
    /\ UNCHANGED << simVars, ctlVars, tickVars >>

\* the caller gets the lock and enters the with block
caller_acquire(t) ==
    /\ rcall[t].at = "lock"
    /\ RegLockFree
    /\ reg_lock' = t
    /\ rcall' = [rcall EXCEPT ![t].at = "check"]
    /\ UNCHANGED << registered_agents, agent_states, active_connections,
                    connection_timestamps, event_handlers, last_event_time,
                    cleanup_task, wake, reg_now, reg_result, shutdown,
                    passes >>
    /\ UNCHANGED << simVars, ctlVars, tickVars >>

\* the checks before the first write: return a failure, or go on
caller_check(t) ==
    /\ rcall[t].at = "check"
    /\ LET why == Refusal(rcall[t].op, rcall[t].agent_id)
       IN  rcall' = [rcall EXCEPT ![t] =
                        IF why = ""
                        THEN [rcall[t] EXCEPT !.at = "write", !.k = 1]
                        ELSE [rcall[t] EXCEPT !.at = "exit", !.reason = why]]
    /\ UNCHANGED << registered_agents, agent_states, active_connections,
                    connection_timestamps, event_handlers, last_event_time,
                    reg_lock, cleanup_task, wake, reg_now, reg_result,
                    shutdown, passes >>
    /\ UNCHANGED << simVars, ctlVars, tickVars >>

\* the next statement of the operation that writes a table
caller_write(t) ==
    /\ rcall[t].at = "write"
    /\ LET c == rcall[t]
           op == c.op
           id == c.agent_id
           table == Writes(op)[c.k]
       IN  /\ registered_agents' =
                  IF table = "registered_agents"
                  THEN Put(registered_agents, id, AgentData(id, "d1"))
                  ELSE registered_agents
           /\ agent_states' =
                  IF table # "agent_states" THEN agent_states
                  ELSE IF op = "register"
                       THEN Put(agent_states, id, "initializing")
                  ELSE IF op = "connect"
                       THEN Put(agent_states, id, ConnectedState)
                  ELSE IF id \in DOMAIN agent_states
                       THEN Put(agent_states, id, "disconnected")
                  ELSE agent_states
           /\ connection_timestamps' =
                  IF table # "connection_timestamps" THEN connection_timestamps
                  ELSE IF op = "connect"
                       THEN Put(connection_timestamps, id, reg_now)
                  ELSE Del(connection_timestamps, id)
           /\ active_connections' =
                  IF table # "active_connections" THEN active_connections
                  ELSE IF op = "connect"
                       THEN Put(active_connections, id, Connection)
                  ELSE Del(active_connections, id)
           /\ event_handlers' =
                  IF table = "event_handlers"
                  THEN PutHandler(event_handlers, id, "e1", "h1")
                  ELSE event_handlers
           /\ last_event_time' =
                  IF table = "last_event_time"
                  THEN Put(last_event_time, id, reg_now)
                  ELSE last_event_time
           /\ rcall' = [rcall EXCEPT ![t] =
                            IF c.k < Len(Writes(op))
                            THEN [c EXCEPT !.k = c.k + 1]
                            ELSE [c EXCEPT !.at = "exit", !.success = TRUE]]
    /\ UNCHANGED << reg_lock, cleanup_task, wake, reg_now, reg_result,
                    shutdown, passes >>
    /\ UNCHANGED << simVars, ctlVars, tickVars >>

\* the caller leaves the with block and returns its result
caller_return(t) ==
    /\ rcall[t].at = "exit"
    /\ reg_lock' = IF reg_lock = t THEN NoThread ELSE reg_lock
    /\ reg_result' = RegResult(rcall[t].op, rcall[t].agent_id,
                               rcall[t].success, rcall[t].reason)
    /\ rcall' = [rcall EXCEPT ![t] = NoCall]
    /\ UNCHANGED << registered_agents, agent_states, active_connections,
                    connection_timestamps, event_handlers, last_event_time,
                    cleanup_task, wake, reg_now, shutdown, passes >>
    /\ UNCHANGED << simVars, ctlVars, tickVars >>

\* ------------------------------------------------------------ specification

Next ==
    \/ \E t \in Threads, in \in CallInputs : Call(t, in[1], in[2])
    \/ \E t \in Threads : Enter(t)
    \/ \E t \in Threads : Execute(t)
    \/ \E t \in Threads : Leave(t)
    \/ ClockAdvance
    \/ \E dt \in Deltas : UpdateCall(dt)
    \/ UpdateStep
    \/ UpdateRaise
    \/ UpdateFinish
    \/ UpdateReturn

Spec == Init /\ [][Next]_vars

\* the snapshot store alone: Save and Load commands from the caller threads
\* and the wall clock, with room for more snapshots than the store holds
NextSaves ==
    \/ \E t \in Threads, in \in SaveInputs : SaveCall(t, in[1], in[2])
    \/ \E t \in Threads : Enter(t)
    \/ \E t \in Threads : Execute(t)
    \/ \E t \in Threads : Leave(t)
    \/ SaveClockAdvance

SpecSaves == Init /\ [][NextSaves]_vars

\* the agent interface alone: its callers, the janitor task and the clock
NextRegistry ==
    \/ \E agent_data \in AgentDataInputs : register_agent(agent_data)
    \/ \E agent_id \in AgentIds : connect_agent(agent_id)
    \/ \E agent_id \in AgentIds : disconnect_agent(agent_id)
    \/ initialize
    \/ periodic_cleanup
    \/ RegClockAdvance

SpecRegistry == Init /\ [][NextRegistry]_vars

\* the ticks alone: one Start command, then update calls whose subsystems
\* emit events
NextTicks ==
    \/ \E t \in Threads : CallWithin(t, "start", NoParams, 1)
    \/ \E t \in Threads : Enter(t)
    \/ \E t \in Threads : Execute(t)
    \/ \E t \in Threads : Leave(t)
    \/ \E dt \in Deltas : TickCall(dt)
    \/ TickStep
    \/ UpdateRaise
    \/ UpdateFinish
    \/ UpdateReturn

SpecTicks == Init /\ [][NextTicks]_vars

\* the event handlers of the interface: registrations and handler
\* registrations
HandlerAgentInputs == {AgentData(id, "d1") : id \in AgentIds}

NextHandlers ==
    \/ \E agent_data \in HandlerAgentInputs : register_agent(agent_data)
    \/ \E agent_id \in AgentIds, event_type \in EventTypes,
          handler \in Handlers \cup {NotCallable} :
              register_event_handler(agent_id, event_type, handler)

SpecHandlers == Init /\ [][NextHandlers]_vars

\* the janitor and the event handlers: registrations, handler registrations
\* of one handler, the janitor task, its cancellation and the clock
NextJanitor ==
    \/ \E agent_data \in HandlerAgentInputs : register_agent(agent_data)
    \/ \E agent_id \in AgentIds, event_type \in EventTypes :
          register_event_handler(agent_id, event_type, "h1")
    \/ initialize
    \/ periodic_cleanup
    \/ cleanup
    \/ HandlerClockAdvance

SpecJanitor == Init /\ [][NextJanitor]_vars

\* the interface with its shutdown: registrations, connections,
\* disconnections, the janitor task, its cancellation and the clock
NextShutdown ==
    \/ \E agent_data \in HandlerAgentInputs : register_agent(agent_data)
    \/ \E agent_id \in AgentIds : connect_agent(agent_id)
    \/ \E agent_id \in AgentIds : disconnect_agent(agent_id)
    \/ initialize
    \/ periodic_cleanup
    \/ cleanup
    \/ RegClockAdvance

SpecShutdown == Init /\ [][NextShutdown]_vars

\* the controller alone, called with any argument for the command
NextCommands ==
    \/ \E t \in Threads, in \in AnyInputs : Call(t, in[1], in[2])
    \/ \E t \in Threads : Enter(t)
    \/ \E t \in Threads : Execute(t)
    \/ \E t \in Threads : Leave(t)
    \/ ClockAdvance

SpecCommands == Init /\ [][NextCommands]_vars

\* the ticks alone, update being called with deltas of either sign
NextDeltas ==
    \/ \E t \in Threads : CallWithin(t, "start", NoParams, 1)
    \/ \E t \in Threads : Enter(t)
    \/ \E t \in Threads : Execute(t)
    \/ \E t \in Threads : Leave(t)
    \/ \E dt \in SignedDeltas : TickCall(dt)
    \/ UpdateStep
    \/ UpdateRaise
    \/ UpdateFinish
    \/ UpdateReturn

SpecDeltas == Init /\ [][NextDeltas]_vars

\* the interface's callers on two threads, each call followed statement
\* by statement
NextCallers ==
    \/ \E t \in Threads, op \in InterfaceOps, agent_id \in AgentIds :
          caller_call(t, op, agent_id)
    \/ \E t \in Threads : caller_acquire(t)
    \/ \E t \in Threads : caller_check(t)
    \/ \E t \in Threads : caller_write(t)
    \/ \E t \in Threads : caller_return(t)

SpecCallers == Init /\ [][NextCallers]_vars

\* ------------------------------------------------------------------ claims

\* the step in which thread t runs the try block of execute_command
ExecStep(t) == pc[t] = "exec" /\ pc'[t] = "finally"

\* thread t is inside the with block, past the busy check
InHandler(t) == pc[t] \in {"exec", "finally"}

\* C1: after any sequence of execute_command calls, from one thread or
\* several, len(command_history) <= MAX_HISTORY_ENTRIES.
C1_HistoryBounded == Len(command_history) <= MAX_HISTORY_ENTRIES

\* more entries were logged than the history holds, and it is full
C1_Witness ==
    /\ logged > MAX_HISTORY_ENTRIES
    /\ Len(command_history) = MAX_HISTORY_ENTRIES

\* C2: every execute_command attempt that is not rejected as busy appends
\* exactly one entry {timestamp, command, params, result} to command_history,
\* also when the command is refused or its handler raises.
C2_EveryAttemptLogged ==
    [][\A t \in Threads :
          ExecStep(t) =>
              command_history' =
                  TrimHistory(Append(command_history,
                                     LogEntry(cmd[t], params[t], result'[t])))]_vars

\* C3: a command submitted while another is executing is answered at once
\* with the busy failure: it never has to wait for the first to finish.
C3_BusyNotBlocked ==
    \A t \in Threads : pc[t] = "lock" => ENABLED Enter(t)

\* C4: at most one command handler executes at any instant, the thread in it
\* holds the lock, and nothing but that thread's own command changes
\* command_history or save_states while it is in the with block.
C4_OneCommandAtATime ==
    /\ [](\A t, u \in Threads :
              InHandler(t) => lock = t /\ (u # t => ~InHandler(u)))
    /\ [][\A t \in Threads :
              InHandler(t) /\ ~ExecStep(t) =>
                  UNCHANGED << command_history, save_states >>]_vars

\* one thread is in its handler while another waits for the lock
C4_Witness ==
    \E t, u \in Threads : t # u /\ pc[t] = "exec" /\ pc[u] = "lock"

\* C5: a Start issued in Initializing succeeds and moves the simulation to
\* Running; a Start issued in any other state fails with 'Simulation already
\* started' and leaves the state unchanged.
C5_StartOnce ==
    [][\A t \in Threads :
          ExecStep(t) /\ cmd[t] = "start" =>
              IF state = "initializing"
              THEN result'[t].success /\ state' = "running"
              ELSE /\ result'[t] = Result(FALSE, "Simulation already started", NoId)
                   /\ state' = state]_vars

\* C6: when a call inside update raises, update returns a failure, the state
\* becomes Error and no later call of that tick is made; in Error every
\* update call is rejected, and the state stays Error unless a Reset runs.
C6_FailureQuarantines ==
    [][/\ (upc = "tick" /\ tick_result' = Raised) =>
              (state' = "error" /\ upc' = "returned" /\ ~tick_result'.success)
       /\ tick_result = Raised => (upc' # "tick" /\ step' \in {step, 0})
       /\ (state = "error" /\ upc = "idle" /\ upc' # "idle") =>
              (upc' = "returned" /\ tick_result' = NotRunning("error"))
       /\ state = "error" =>
              \/ state' = "error"
              \/ \E t \in Threads : ExecStep(t) /\ cmd[t] = "reset"]_vars

\* a call raised with later calls of the tick still to make, and a Start
\* issued since has left the state Error
C6_Witness ==
    /\ tick_result = Raised
    /\ step < Len(UpdateOrder)
    /\ state = "error"
    /\ \E t \in Threads : pc[t] = "finally" /\ cmd[t] = "start"

\* C7: from Error, a Reset command succeeds and returns the simulation to
\* Initializing.
C7_ResetRecovers ==
    [][\A t \in Threads :
          (ExecStep(t) /\ cmd[t] = "reset" /\ state = "error") =>
              (result'[t].success /\ state' = "initializing")]_vars

\* C8: update called in a state other than Running returns the 'not running'
\* failure, makes none of its calls, and leaves current_time, the lifecycle
\* state and the subsystems unchanged.
C8_UpdateRejected ==
    [][(upc = "idle" /\ upc' # "idle" /\ state # "running") =>
           /\ upc' = "returned"
           /\ tick_result' = NotRunning(state)
           /\ step' = 0
           /\ UNCHANGED << current_time, state, world >>]_vars

\* update was called in Error and rejected
C8_Witness ==
    /\ upc = "returned"
    /\ tick_result = NotRunning("error")
    /\ step = 0

\* C9: Pause succeeds exactly in Running and moves to Paused, Resume succeeds
\* exactly in Paused and moves to Running; in any other state each fails and
\* leaves the state unchanged.
C9_PauseResume ==
    [][\A t \in Threads :
          /\ (ExecStep(t) /\ cmd[t] = "pause") =>
                 IF state = "running"
                 THEN result'[t].success /\ state' = "paused"
                 ELSE ~result'[t].success /\ state' = state
          /\ (ExecStep(t) /\ cmd[t] = "resume") =>
                 IF state = "paused"
                 THEN result'[t].success /\ state' = "running"
                 ELSE ~result'[t].success /\ state' = state]_vars

\* C10: Save, and Load of a stored saveId, succeed in every state but Error;
\* in Error both are refused and no snapshot is stored or restored.
C10_SaveLoadLegality ==
    [][\A t \in Threads :
          (ExecStep(t) /\ cmd[t] \in {"save", "load"}) =>
              IF state # "error"
              THEN (cmd[t] = "save" \/ params[t].save_id \in DOMAIN save_states)
                       => result'[t].success
              ELSE /\ ~result'[t].success
                   /\ UNCHANGED << save_states, world >>]_vars

\* the wall-clock reading a save id was made from
SavedAt(id) == id[1] * 10 + id[2]

\* C11: after any sequence of commands, len(save_states) <= MAX_SAVE_STATES.
C11_SavesBounded == Cardinality(DOMAIN save_states) <= MAX_SAVE_STATES

\* a snapshot has been evicted and the store is full
C11_Witness ==
    /\ evicted # {}
    /\ Cardinality(DOMAIN save_states) = MAX_SAVE_STATES

C13_SaveIdFresh ==
    [][\A t \in Threads :
          (ExecStep(t) /\ cmd[t] = "save" /\ result'[t].success) =>
              result'[t].save_id \notin DOMAIN save_states]_vars

\* C14: a Load whose saveId is not in save_states, or whose params are
\* missing or carry no save_id, fails with 'Save state not found' and leaves
\* the subsystems, the lifecycle state and save_states unchanged.
C14_LoadNotFound ==
    [][\A t \in Threads :
          (/\ ExecStep(t) /\ cmd[t] = "load"
           /\ params[t].save_id \notin DOMAIN save_states) =>
              /\ result'[t] = Result(FALSE, "Save state not found", NoId)
              /\ UNCHANGED << world, state, save_states >>]_vars

C16_ExceptionsCounted ==
    [][\A t \in Threads :
          (/\ ExecStep(t)
           /\ result'[t].reason \notin
                  {"", "Simulation already started", "Save state not found"}) =>
              /\ ~result'[t].success
              /\ error_count' = error_count + 1]_vars

\* the six tables of the interface
regTables ==
    << registered_agents, agent_states, active_connections,
       connection_timestamps, event_handlers, last_event_time >>

\* a call of op for agent id returns in this step (a call that returns what
\* the call before it returned and changes no table is a stuttering step)
Returned(op, id) ==
    /\ reg_result'.op = op
    /\ reg_result'.agent_id = id
    /\ << reg_result, regTables >>' # << reg_result, regTables >>

\* C17: register_agent with an id not yet registered succeeds while fewer
\* than MAX_CONNECTIONS agents are registered; with MAX_CONNECTIONS
\* registered it fails with 'Maximum connections reached' and leaves
\* registered_agents and agent_states unchanged.
C17_CapacityEnforced ==
    [][\A id \in AgentIds :
          (Returned("register", id) /\ id \notin DOMAIN registered_agents) =>
              IF Cardinality(DOMAIN registered_agents) < MAX_CONNECTIONS
              THEN /\ reg_result'.success
                   /\ DOMAIN registered_agents' =
                          (DOMAIN registered_agents) \cup {id}
                   /\ registered_agents'[id].id = id
                   /\ agent_states'[id] = "initializing"
              ELSE /\ reg_result' =
                          RegResult("register", id, FALSE,
                                    "Maximum connections reached")
                   /\ UNCHANGED << registered_agents, agent_states >>]_vars

\* MAX_CONNECTIONS agents are registered and a further id has been refused
C17_Witness ==
    /\ Cardinality(DOMAIN registered_agents) = MAX_CONNECTIONS
    /\ reg_result.op = "register"
    /\ reg_result.agent_id \in AgentIds \ DOMAIN registered_agents
    /\ reg_result.reason = "Maximum connections reached"

\* C18: in every reachable state of the interface, registered_agents and
\* active_connections each hold at most MAX_CONNECTIONS entries, whatever
\* the interleaving of register_agent, connect_agent and janitor passes.
C18_TablesBounded ==
    /\ Cardinality(DOMAIN registered_agents) <= MAX_CONNECTIONS
    /\ Cardinality(DOMAIN active_connections) <= MAX_CONNECTIONS

\* both tables are full and a janitor pass has run into them
C18_Witness ==
    /\ Cardinality(DOMAIN registered_agents) = MAX_CONNECTIONS
    /\ Cardinality(DOMAIN active_connections) = MAX_CONNECTIONS
    /\ cleanup_task = "blocked"

\* C19: register_agent with an id that is already registered fails with
\* 'Agent already registered' in every registry state, also at capacity,
\* and leaves the stored descriptor, the agent's state and its connection
\* unchanged.
C19_DuplicateRejected ==
    [][\A id \in AgentIds :
          (Returned("register", id) /\ id \in DOMAIN registered_agents) =>
              /\ reg_result' =
                     RegResult("register", id, FALSE, "Agent already registered")
              /\ UNCHANGED regTables]_vars

\* C20: connect_agent on an unregistered id fails with a reason and changes
\* no table; on a registered id it succeeds, sets the agent Active and
\* records a connection handle and the time of the call; an Active agent
\* stays Active until it is disconnected.
C20_ConnectActivates ==
    [][/\ \A id \in AgentIds :
              (Returned("connect", id) /\ id \notin DOMAIN registered_agents) =>
                  /\ ~reg_result'.success
                  /\ reg_result'.reason # ""
                  /\ UNCHANGED regTables
       /\ \A id \in AgentIds :
              (Returned("connect", id) /\ id \in DOMAIN registered_agents) =>
                  /\ reg_result'.success
                  /\ agent_states'[id] = "active"
                  /\ id \in DOMAIN active_connections'
                  /\ id \in DOMAIN connection_timestamps'
                  /\ connection_timestamps'[id] = reg_now
       /\ \A id \in DOMAIN agent_states :
              (agent_states[id] = "active" /\ agent_states'[id] # "active") =>
                  /\ Returned("disconnect", id)
                  /\ agent_states'[id] = "disconnected"]_vars

\* an agent connected earlier is still Active, with its handle, after the
\* clock and other calls have moved on
C20_Witness ==
    \E id \in DOMAIN active_connections :
        /\ agent_states[id] = "active"
        /\ connection_timestamps[id] < reg_now
        /\ reg_result.agent_id # id

\* C21: disconnecting an agent removes its connection handle and timestamp
\* and sets its state to Disconnected; disconnecting it again right away
\* leaves the registry exactly as the first disconnect left it.
C21_DisconnectIdempotent ==
    [][\A id \in AgentIds :
          /\ Returned("disconnect", id) =>
                 /\ id \notin DOMAIN active_connections'
                 /\ id \notin DOMAIN connection_timestamps'
                 /\ id \in DOMAIN registered_agents =>
                        agent_states'[id] = "disconnected"
                 /\ \A a \in (DOMAIN agent_states) \ {id} :
                        agent_states'[a] = agent_states[a]
                 /\ UNCHANGED << registered_agents, event_handlers,
                                 last_event_time >>
          /\ (reg_result = RegResult("disconnect", id, TRUE, "")
                  /\ disconnect_agent(id)) => UNCHANGED regVars]_vars

\* a connected agent has been disconnected: Disconnected, no handle, no
\* timestamp, while another agent keeps its connection
C21_Witness ==
    \E id \in DOMAIN registered_agents :
        /\ reg_result = RegResult("disconnect", id, TRUE, "")
        /\ agent_states[id] = "disconnected"
        /\ id \notin DOMAIN active_connections
        /\ id \notin DOMAIN connection_timestamps
        /\ active_connections # << >>

\* a janitor pass runs in this step: it blocks, or it ends and sleeps again
PassStep ==
    /\ cleanup_task = "sleeping"
    /\ \/ cleanup_task' = "blocked"
       \/ passes' = passes + 1

\* C22: a connection idle for more than CONNECTION_TIMEOUT when a janitor
\* pass runs is Disconnected, and gone from active_connections and
\* connection_timestamps, when the pass has run, and the pass completes.
C22_StaleDisconnected ==
    [][PassStep =>
          /\ passes' = passes + 1
          /\ \A id \in DOMAIN connection_timestamps :
                 reg_now - connection_timestamps[id] > CONNECTION_TIMEOUT =>
                     /\ agent_states'[id] = "disconnected"
                     /\ id \notin DOMAIN active_connections'
                     /\ id \notin DOMAIN connection_timestamps']_vars

\* C23: cleanup() called while the janitor sleeps ends the janitor task
\* without another pass and returns with the task finished; once the task
\* is cancelled no pass runs any more.
C23_CancelEndsJanitor ==
    [][/\ (shutdown = "no" /\ shutdown' # "no" /\ cleanup_task = "sleeping") =>
              /\ shutdown' = "done"
              /\ cleanup_task' = "cancelled"
              /\ UNCHANGED << passes, wake, reg_lock, regTables >>
       /\ cleanup_task = "cancelled" =>
              /\ cleanup_task' = "cancelled"
              /\ UNCHANGED << passes, wake, reg_lock >>]_vars

\* the janitor was cancelled in its sleep after a completed pass, and the
\* clock has gone past the time it would have woken up
C23_Witness ==
    /\ shutdown = "done"
    /\ cleanup_task = "cancelled"
    /\ passes > 0
    /\ reg_now >= wake

\* C24: register_event_handler fails and changes no table when the agent is
\* not registered or the handler is not callable; otherwise it sets the
\* handler of exactly that (agent_id, event_type) pair, whatever was there,
\* and leaves the handler of every other pair as it was.
C24_HandlerFrame ==
    [][\A id \in AgentIds, et \in EventTypes, h \in Handlers \cup {NotCallable} :
          (Returned("handler", id) /\ register_event_handler(id, et, h)) =>
              IF id \notin DOMAIN registered_agents \/ h = NotCallable
              THEN /\ ~reg_result'.success
                   /\ reg_result'.reason # ""
                   /\ UNCHANGED regTables
              ELSE /\ reg_result'.success
                   /\ id \in DOMAIN event_handlers'
                   /\ et \in DOMAIN event_handlers'[id]
                   /\ event_handlers'[id][et] = h
                   /\ \A a \in DOMAIN event_handlers :
                          /\ a \in DOMAIN event_handlers'
                          /\ \A e \in DOMAIN event_handlers[a] :
                                 << a, e >> # << id, et >> =>
                                     /\ e \in DOMAIN event_handlers'[a]
                                     /\ event_handlers'[a][e] = event_handlers[a][e]
                   /\ \A a \in DOMAIN event_handlers' :
                          \A e \in DOMAIN event_handlers'[a] :
                              << a, e >> # << id, et >> =>
                                  /\ a \in DOMAIN event_handlers
                                  /\ e \in DOMAIN event_handlers[a]
                   /\ UNCHANGED << registered_agents, agent_states,
                                   active_connections, connection_timestamps >>]_vars

\* a handler has been overwritten next to the handler of another event type
\* of the same agent and the handler of another agent
C24_Witness ==
    \E id \in DOMAIN event_handlers :
        /\ reg_result = RegResult("handler", id, TRUE, "")
        /\ DOMAIN event_handlers[id] = EventTypes
        /\ event_handlers[id]["e1"] # event_handlers[id]["e2"]
        /\ \E a \in DOMAIN event_handlers : a # id

\* C25: after every completed janitor pass each agent id with an entry in
\* event_handlers is in registered_agents, and the pass has removed no
\* handler table of an agent that is registered.
C25_OrphansOnly ==
    [][(passes' = passes + 1) =>
          /\ DOMAIN event_handlers' \subseteq DOMAIN registered_agents'
          /\ \A a \in (DOMAIN event_handlers) \cap (DOMAIN registered_agents) :
                 /\ a \in DOMAIN event_handlers'
                 /\ event_handlers'[a] = event_handlers[a]]_vars

\* a pass has completed while handler tables were registered
C25_Witness ==
    /\ passes > 0
    /\ event_handlers # << >>
    /\ \E a \in DOMAIN last_event_time : last_event_time[a] < wake - CLEANUP_INTERVAL

\* the changes of an agent's state the interface's state machine lists
AgentTransitions ==
    {<< "initializing", "active" >>, << "active", "inactive" >>,
     << "active", "disconnected" >>}
        \cup (AgentState \X {"error"})

\* C28: every change of an agent's state in agent_states is
\* Initializing->Active, Active->Inactive, Active->Disconnected or a change
\* to Error.
C28_AgentTransitions ==
    [][\A id \in DOMAIN agent_states :
          agent_states'[id] # agent_states[id] =>
              << agent_states[id], agent_states'[id] >> \in AgentTransitions]_vars

\* the order of the subsystems within a tick
FixedOrder ==
    << "environment", "physics", "agents", "combat", "social", "factions" >>

\* the calls of the tick in progress that have returned
ReturnedCalls == {UpdateOrder[k] : k \in 1 .. step}

\* C26: within an accepted tick a subsystem is invoked only when every
\* subsystem before it in the order environment, physics, agents, combat,
\* social, factions has returned and none after it has been invoked; a tick
\* that succeeds has invoked all six.
C26_SubsystemOrder ==
    [][/\ (upc = "tick" /\ step' = step + 1) =>
              \A i \in 1 .. Len(FixedOrder) :
                  UpdateOrder[step'] = FixedOrder[i] =>
                      /\ \A j \in 1 .. (i - 1) : FixedOrder[j] \in ReturnedCalls
                      /\ \A j \in i .. Len(FixedOrder) :
                             FixedOrder[j] \notin ReturnedCalls
       /\ (upc = "tick" /\ tick_result'.success) =>
              \A i \in 1 .. Len(FixedOrder) : FixedOrder[i] \in ReturnedCalls]_vars

\* combat has been resolved in a tick, after environment, physics and agents
C26_Witness ==
    /\ upc = "tick"
    /\ step > 0
    /\ UpdateOrder[step] = "combat"
    /\ {"environment", "physics", "agents"} \subseteq ReturnedCalls

LifecycleTransitions ==
    {<< "initializing", "running" >>, << "running", "paused" >>,
     << "paused", "running" >>, << "running", "stopped" >>,
     << "paused", "stopped" >>, << "error", "initializing" >>}
        \cup (SimulationState \X {"error"})

\* C29: every change of the lifecycle state, by a command or by a tick, is
\* Initializing->Running, Running->Paused, Paused->Running, Running or
\* Paused->Stopped, a change to Error, or Error->Initializing.
C29_LifecycleTransitions ==
    [][state' # state => << state, state' >> \in LifecycleTransitions]_vars

\* the simulation was started, ran, and a call late in a tick took it to
\* Error, where a later command found it
C29_Witness ==
    /\ state = "error"
    /\ tick_result = Raised
    /\ step > 5
    /\ \E t \in Threads : pc[t] = "exec"

\* C30: a control command that fails leaves the lifecycle state as it was;
\* only a failure inside a tick moves the simulation to Error.
C30_FailedCommandKeepsState ==
    [][\A t \in Threads :
          (ExecStep(t) /\ ~result'[t].success) => state' = state]_vars

\* C31: no tick is in progress while a control command that changed the
\* simulation (a Start that set the state, a Load that called set_state)
\* is still inside execute_command: ticks and commands exclude each other.
C31_TicksExcluded ==
    \A t \in Threads :
        (pc[t] = "finally" /\ cmd[t] \in {"start", "load"} /\ result[t].success)
            => upc # "tick"

\* the callers inside the with block of an interface operation
InSection == {t \in Threads : rcall[t].at \in {"check", "write", "exit"}}

\* the tables as whole operations leave them
WholeOperations ==
    /\ DOMAIN agent_states = DOMAIN registered_agents
    /\ DOMAIN active_connections = DOMAIN connection_timestamps

\* C32: operations of concurrent callers are linearized: at most one caller
\* is inside an operation's with block, a table is written only by the
\* caller that holds the lock, register_agent stores an id only when the id
\* is not registered (of two concurrent registrations of a new id one
\* succeeds), and whenever the lock is free the tables are as whole
\* operations leave them.
C32_Linearized ==
    [][/\ Cardinality(InSection') <= 1
       /\ regTables' # regTables =>
              \E t \in Threads : reg_lock = t /\ rcall[t].at = "write"
       /\ \A t \in Threads :
              (rcall[t].at = "write" /\ rcall[t].op = "register"
                   /\ rcall[t].k = 1 /\ rcall'[t].k = 2) =>
                  rcall[t].agent_id \notin DOMAIN registered_agents
       /\ reg_lock' = NoThread => WholeOperations']_vars

\* a caller is half way through register_agent, the id stored and its
\* state not yet, while the other caller waits for the lock with a
\* registration of the same id
C32_Witness ==
    \E t, u \in Threads :
        /\ t # u
        /\ rcall[t].op = "register" /\ rcall[t].at = "write" /\ rcall[t].k = 2
        /\ rcall[u].op = "register" /\ rcall[u].at = "lock"
        /\ rcall[u].agent_id = rcall[t].agent_id
        /\ ~WholeOperations

C34_FlagCleared ==
    (\A t \in Threads : pc[t] = "idle") => (~is_processing /\ lock = NoThread)

\* C35: the registry never deadlocks: no janitor pass is left waiting, with
\* the registry lock held, for the lock it holds itself.
C35_NoDeadlock == ~(cleanup_task = "blocked" /\ reg_lock = "janitor")

\* C36: in every state between operations, the janitor cancelled or not,
\* active_connections and connection_timestamps have the same keys, all of
\* them registered, agent_states has the keys of registered_agents, and an
\* agent has a connection exactly when its state is Active.
C36_TablesConsistent ==
    /\ DOMAIN active_connections = DOMAIN connection_timestamps
    /\ DOMAIN active_connections \subseteq DOMAIN registered_agents
    /\ DOMAIN agent_states = DOMAIN registered_agents
    /\ \A a \in DOMAIN agent_states :
           a \in DOMAIN active_connections <=> agent_states[a] = "active"

\* the janitor was cancelled after a pass, one agent is connected and
\* another was disconnected
C36_Witness ==
    /\ cleanup_task = "cancelled"
    /\ passes > 0
    /\ \E a, b \in DOMAIN registered_agents :
           /\ a \in DOMAIN active_connections
           /\ agent_states[b] = "disconnected"

\* C37: a tick in which a call raises leaves current_time as it was and
\* returns no events; current_time changes only at the end of a tick all of
\* whose subsystems returned, and then by delta_time * time_scale.
C37_FailedTickFrame ==
    [][/\ (upc = "tick" /\ tick_result' = Raised) =>
              (current_time' = current_time /\ events' = << >>)
       /\ current_time' # current_time =>
              /\ upc = "tick"
              /\ tick_result'.success
              /\ Subsystems \subseteq ReturnedCalls
              /\ \E dt \in Deltas :
                     current_time' = current_time + dt * TimeScale]_vars

\* after a tick that advanced the clock, a tick raised when its subsystems
\* had already emitted events
C37_Witness ==
    /\ upc = "returned"
    /\ tick_result = Raised
    /\ current_time > 0
    /\ emitted > tick_base
    /\ events = << >>

\* C38: registered_agents only grows: no step removes or replaces an entry
\* (disconnection, janitor pass, failed registration and shutdown included),
\* so with MAX_CONNECTIONS ids registered every registration fails and
\* stores nothing, whatever was disconnected before.
C38_RegistrationsGrow ==
    [][/\ \A a \in DOMAIN registered_agents :
              /\ a \in DOMAIN registered_agents'
              /\ registered_agents'[a] = registered_agents[a]
       /\ \A id \in AgentIds :
              (/\ Cardinality(DOMAIN registered_agents) >= MAX_CONNECTIONS
               /\ Returned("register", id)
               /\ register_agent(AgentData(id, "d1"))) =>
                  /\ ~reg_result'.success
                  /\ UNCHANGED registered_agents]_vars

\* with MAX_CONNECTIONS agents registered and one of them disconnected,
\* the registration of a new id was refused
C38_Witness ==
    /\ Cardinality(DOMAIN registered_agents) = MAX_CONNECTIONS
    /\ \E a \in DOMAIN registered_agents : agent_states[a] = "disconnected"
    /\ reg_result.op = "register"
    /\ ~reg_result.success
    /\ reg_result.agent_id \in AgentIds \ DOMAIN registered_agents

\* the connections idle for at most CONNECTION_TIMEOUT
Fresh ==
    {a \in DOMAIN connection_timestamps :
        reg_now - connection_timestamps[a] <= CONNECTION_TIMEOUT}

\* C39: a janitor pass leaves every agent whose connection has been idle
\* for at most CONNECTION_TIMEOUT Active, with its connection handle and
\* its timestamp as they were, and changes no entry of registered_agents;
\* a pass that finds only such connections disconnects nothing and ends.
C39_FreshKept ==
    [][PassStep =>
          /\ \A a \in Fresh :
                 /\ a \in DOMAIN active_connections'
                 /\ active_connections'[a] = active_connections[a]
                 /\ a \in DOMAIN connection_timestamps'
                 /\ connection_timestamps'[a] = connection_timestamps[a]
                 /\ agent_states'[a] = "active"
          /\ registered_agents' = registered_agents
          /\ Fresh = DOMAIN connection_timestamps =>
                 /\ passes' = passes + 1
                 /\ UNCHANGED << active_connections, connection_timestamps,
                                 agent_states >>]_vars

\* a pass has ended with a connection that was idle for no longer than
\* CONNECTION_TIMEOUT in the tables, its agent Active
C39_Witness ==
    /\ passes > 0
    /\ wake = reg_now + CLEANUP_INTERVAL
    /\ Fresh # {}
    /\ \A a \in Fresh : agent_states[a] = "active"

====
